---- MODULE Spec2Model ----
\* QuakeNite building system, server side (MP/code/game/g_building.c):
\* structure placement, validation, resource accounting and build sessions.
EXTENDS Integers, Sequences, FiniteSets, TLC

\* ---------------------------------------------------------------------------
\* Bounds of the model
\* ---------------------------------------------------------------------------
\* last simulation time (ms) the clock is advanced to, per specification
MaxTime == 100
PlaceMaxTime == 200
\* entity slots of g_entities[] that buildables can take, per specification
FreeSlots == 1
PlaceFreeSlots == 2
SpawnFreeSlots == 2
\* entity slots taken by other entities
OtherSlots == 1
\* largest configured g_buildingStartMaterials, per specification
MaxStartMaterials == 10
PlaceMaxStartMaterials == 20
\* the scenario of ten walls: its slots and its last simulation time
WallsFreeSlots == 11
WallsMaxTime == 1100
\* the sessions of two clients: its slots and its last simulation time
SessionFreeSlots == 1
SessionMaxTime == 100
\* calls with every value of the type argument: their slots
TypesFreeSlots == 2
\* the largest coordinate handed to G_SnapToGrid on the x axis
SnapMaxCoord == 130
\* two actors building side by side: their slots and their last simulation time
ActorsFreeSlots == 2
ActorsMaxTime == 100
\* one actor placing as time passes: its slots and its last simulation time
CooldownFreeSlots == 2
CooldownMaxTime == 200
\* the feature switched off and on around placements
GateFreeSlots == 2
GateMaxTime == 100
\* one cgame and the server: entity slots, simulation time, commands in flight
MirrorFreeSlots == 1
MirrorMaxTime == 100
MirrorMaxInFlight == 2

\* ---------------------------------------------------------------------------
\* Constants of the program
\* ---------------------------------------------------------------------------
BUILD_NONE == 0
BUILD_WALL == 1
BUILD_FLOOR == 2
BUILD_RAMP == 3
BUILD_ROOF == 4
BUILD_NUM_TYPES == 5
BUILD_GRID_SIZE == 64
BUILD_COOLDOWN_MS == 100
BUILD_DEFAULT_HEALTH == 150
\* the registered defaults of g_buildingStartMaterials and g_buildingMaxStructures
DefaultStartMaterials == 100
DefaultMaxStructures == 256

\* builder == NULL
NoBuilder == 0
\* G_Spawn() == NULL, G_SpawnBuildable() == NULL
NoEntity == 0

\* The float NaN. G_SnapToGrid with gridSize 0 computes floor(x/0 + 0.5) * 0,
\* which is NaN for every x; every ordered comparison with NaN is false.
NaN == 1000000

FAdd(a, b) == IF a = NaN \/ b = NaN THEN NaN ELSE a + b
FLe(a, b) == a # NaN /\ b # NaN /\ a <= b
FGe(a, b) == a # NaN /\ b # NaN /\ a >= b
FLt(a, b) == a # NaN /\ b # NaN /\ a < b

\* VectorAdd
VectorAdd(a, b) == [i \in 1..3 |-> FAdd(a[i], b[i])]

\* static buildPieceDef_t buildPieceDefs[BUILD_NUM_TYPES]
buildPieceDefs ==
  [t \in 0..(BUILD_NUM_TYPES - 1) |->
     CASE t = BUILD_NONE ->
            [type |-> BUILD_NONE, mins |-> <<0, 0, 0>>, maxs |-> <<0, 0, 0>>,
             health |-> 0, materialCost |-> 0, gridSnap |-> 0]
       [] t = BUILD_WALL ->
            [type |-> BUILD_WALL, mins |-> <<-32, -4, 0>>, maxs |-> <<32, 4, 64>>,
             health |-> BUILD_DEFAULT_HEALTH, materialCost |-> 10,
             gridSnap |-> BUILD_GRID_SIZE]
       [] t = BUILD_FLOOR ->
            [type |-> BUILD_FLOOR, mins |-> <<-32, -32, -4>>, maxs |-> <<32, 32, 4>>,
             health |-> BUILD_DEFAULT_HEALTH, materialCost |-> 10,
             gridSnap |-> BUILD_GRID_SIZE]
       [] t = BUILD_RAMP ->
            [type |-> BUILD_RAMP, mins |-> <<-32, -32, 0>>, maxs |-> <<32, 32, 64>>,
             health |-> BUILD_DEFAULT_HEALTH, materialCost |-> 10,
             gridSnap |-> BUILD_GRID_SIZE]
       [] t = BUILD_ROOF ->
            [type |-> BUILD_ROOF, mins |-> <<-32, -32, 0>>, maxs |-> <<32, 32, 32>>,
             health |-> 100, materialCost |-> 10,
             gridSnap |-> BUILD_GRID_SIZE]]

\* G_GetBuildPieceDef: out-of-range types resolve to the BUILD_NONE entry
G_GetBuildPieceDef(type) ==
  IF type < 0 \/ type >= BUILD_NUM_TYPES
    THEN buildPieceDefs[BUILD_NONE]
    ELSE buildPieceDefs[type]

\* a variant that truncates towards zero, as a cast to int does, instead of floor
SnapAxisTrunc(x, gridSize) ==
  IF gridSize = 0 \/ x = NaN
    THEN NaN
    ELSE IF 2 * x + gridSize >= 0
      THEN ((2 * x + gridSize) \div (2 * gridSize)) * gridSize
      ELSE (0 - ((0 - (2 * x + gridSize)) \div (2 * gridSize))) * gridSize

\* floor(x / gridSize + 0.5f) * gridSize on one axis
SnapAxis(x, gridSize) ==
  IF gridSize = 0 \/ x = NaN
    THEN NaN
    ELSE ((2 * x + gridSize) \div (2 * gridSize)) * gridSize

\* G_SnapToGrid
G_SnapToGrid(origin, gridSize) == [i \in 1..3 |-> SnapAxis(origin[i], gridSize)]

\* a variant with open intervals: boxes that only touch do not intersect
AABBIntersectStrict(newMins, newMaxs, hitMins, hitMaxs) ==
  /\ FLt(newMins[1], hitMaxs[1]) /\ FLt(hitMins[1], newMaxs[1])
  /\ FLt(newMins[2], hitMaxs[2]) /\ FLt(hitMins[2], newMaxs[2])
  /\ FLt(newMins[3], hitMaxs[3]) /\ FLt(hitMins[3], newMaxs[3])

\* the AABB intersection test of G_CanPlaceBuildable (closed intervals)
AABBIntersect(newMins, newMaxs, hitMins, hitMaxs) ==
  /\ FLe(newMins[1], hitMaxs[1]) /\ FGe(newMaxs[1], hitMins[1])
  /\ FLe(newMins[2], hitMaxs[2]) /\ FGe(newMaxs[2], hitMins[2])
  /\ FLe(newMins[3], hitMaxs[3]) /\ FGe(newMaxs[3], hitMins[3])

\* World geometry seen by trap_Trace: everything below this height is solid
WorldSolidTop == -8

\* trap_Trace( &tr, origin, mins, maxs, origin, ... ): tr.startsolid || tr.allsolid
TraceStartSolid(origin, mins, maxs) == FLt(FAdd(origin[3], mins[3]), WorldSolidTop)

\* ---------------------------------------------------------------------------
\* State
\* ---------------------------------------------------------------------------
Clients == {1, 2}

VARIABLES
  enabled,          \* g_buildingEnabled.integer
  startMaterials,   \* g_buildingStartMaterials.integer
  maxStructures,    \* g_buildingMaxStructures.integer
  time,             \* level.time
  materials,        \* client->ps.stats[STAT_QN_MATERIALS], per client
  buildState,       \* client->buildState, per client
  entities,         \* g_entities[], the slots buildables can take
  last,             \* the call made last: its arguments, result and signals
  cg_buildState,    \* cg_buildState of the cgame of client 1
  clientCommands    \* commands that cgame has sent and the server has not run yet

vars == <<enabled, startMaterials, maxStructures, time, materials, buildState,
          entities, last, cg_buildState, clientCommands>>

\* the state of the game module (server)
gameVars == <<enabled, startMaterials, maxStructures, time, materials, buildState,
              entities, last>>

\* the game module never writes the state of a cgame, and a step that is not
\* the dispatch of a client command leaves the commands in flight alone
ServerOnly == UNCHANGED <<cg_buildState, clientCommands>>

\* cgBuildState_t after memset( &cg_buildState, 0, ... )
ZeroCgBuildState ==
  [active |-> FALSE, selectedType |-> BUILD_NONE, rotation |-> 0, canPlace |-> FALSE]

\* CG_InitBuildingSystem: the client state cleared; nothing sent yet
CG_InitBuildingSystem ==
  /\ cg_buildState = ZeroCgBuildState
  /\ clientCommands = <<>>

\* the entity numbers the loops visit: 0 .. level.num_entities - 1
Slots == DOMAIN entities

\* memset( &buildState, 0, sizeof buildState )
ZeroBuildState ==
  [active |-> FALSE, selectedType |-> BUILD_NONE, rotation |-> 0, lastBuildTime |-> 0]

\* a slot that is not in use (G_FreeEntity clears the entity)
FreeEntity ==
  [inuse |-> FALSE, eType |-> "ET_GENERAL", buildableType |-> 0, buildableOwner |-> 0,
   origin |-> <<0, 0, 0>>, angles |-> <<0, 0, 0>>, health |-> 0]

\* a slot in use by an entity that is no buildable
OtherEntity ==
  [inuse |-> TRUE, eType |-> "ET_GENERAL", buildableType |-> 0, buildableOwner |-> 0,
   origin |-> <<0, 0, 0>>, angles |-> <<0, 0, 0>>, health |-> 0]

IsBuildable(e) == e.inuse /\ e.eType = "ET_BUILDABLE"

LiveSlots == {i \in Slots : IsBuildable(entities[i])}

\* G_CountBuildables
G_CountBuildables == Cardinality({i \in Slots : IsBuildable(entities[i])})

\* world-space bounds of an existing buildable, as G_CanPlaceBuildable computes them
HitMins(hit) ==
  VectorAdd(hit.origin, G_GetBuildPieceDef(hit.buildableType).mins)
HitMaxs(hit) ==
  VectorAdd(hit.origin, G_GetBuildPieceDef(hit.buildableType).maxs)

\* a variant whose loop ends at the first slot that holds no buildable
OverlapsBuildableBreak(def, origin) ==
  \E i \in Slots :
    /\ \A j \in Slots : j <= i => IsBuildable(entities[j])
    /\ AABBIntersect(VectorAdd(origin, def.mins), VectorAdd(origin, def.maxs),
                     HitMins(entities[i]), HitMaxs(entities[i]))

\* the overlap loop of G_CanPlaceBuildable
OverlapsBuildable(def, origin) ==
  \E i \in Slots :
    /\ IsBuildable(entities[i])
    /\ AABBIntersect(VectorAdd(origin, def.mins), VectorAdd(origin, def.maxs),
                     HitMins(entities[i]), HitMaxs(entities[i]))

\* the materials check of G_CanPlaceBuildable
HasMaterials(builder, def) ==
  builder # NoBuilder => ~(materials[builder] < def.materialCost)

\* a variant that lets one more buildable in
BelowMaxOffByOne == ~(G_CountBuildables > maxStructures)

\* the population check of G_CanPlaceBuildable
BelowMax == ~(G_CountBuildables >= maxStructures)

\* a variant without the "building enabled" check
G_CanPlaceBuildableNoGate(type, origin, angles, builder) ==
  LET def == G_GetBuildPieceDef(type) IN
  /\ type # BUILD_NONE
  /\ HasMaterials(builder, def)
  /\ BelowMax
  /\ ~TraceStartSolid(origin, def.mins, def.maxs)
  /\ ~OverlapsBuildable(def, origin)

\* G_CanPlaceBuildable
G_CanPlaceBuildable(type, origin, angles, builder) ==
  LET def == G_GetBuildPieceDef(type) IN
  /\ enabled
  /\ type # BUILD_NONE
  /\ HasMaterials(builder, def)
  /\ BelowMax
  /\ ~TraceStartSolid(origin, def.mins, def.maxs)
  /\ ~OverlapsBuildable(def, origin)

\* G_Spawn: the first free slot, NULL when there is none
G_Spawn ==
  IF \E i \in Slots : ~entities[i].inuse
    THEN CHOOSE i \in Slots :
           /\ ~entities[i].inuse
           /\ \A j \in Slots : ~entities[j].inuse => i <= j
    ELSE NoEntity

\* a variant that keeps the requested origin as it is
SnappedOriginRaw(type, origin) == origin

\* the origin G_SpawnBuildable validates and stores
SnappedOrigin(type, origin) ==
  G_SnapToGrid(origin, G_GetBuildPieceDef(type).gridSnap)

\* a variant without the final placement check
SpawnResultNoFinalCheck(type, origin, angles, builder) ==
  IF ~enabled THEN NoEntity
  ELSE IF type = BUILD_NONE THEN NoEntity
  ELSE G_Spawn

\* the entity G_SpawnBuildable returns: a slot, or NoEntity for NULL
SpawnResult(type, origin, angles, builder) ==
  IF ~enabled THEN NoEntity
  ELSE IF type = BUILD_NONE THEN NoEntity
  ELSE IF ~G_CanPlaceBuildable(type, SnappedOrigin(type, origin), angles, builder)
    THEN NoEntity
  ELSE G_Spawn

\* what G_SpawnBuildable prints and emits when it returns ent
SpawnSignals(type, origin, angles, builder, ent) ==
  IF ent # NoEntity
    THEN {"EV_BUILD_PLACE"}
  ELSE IF /\ enabled
          /\ type # BUILD_NONE
          /\ G_CanPlaceBuildable(type, SnappedOrigin(type, origin), angles, builder)
    THEN {"G_Printf: no free entities"}
  ELSE {}

\* a variant that deducts the piece's health instead of its cost
DeductMaterialsHealth(builder, def) ==
  IF builder # NoBuilder
    THEN [materials EXCEPT ![builder] = @ - def.health]
    ELSE materials

\* "Deduct materials from builder" of G_SpawnBuildable
DeductMaterials(builder, def) ==
  IF builder # NoBuilder
    THEN [materials EXCEPT ![builder] = @ - def.materialCost]
    ELSE materials

\* a variant that deducts the materials before it allocates the entity
G_SpawnBuildableDebitFirst(type, origin, angles, builder, ent) ==
  LET def == G_GetBuildPieceDef(type) IN
  IF ent = NoEntity
    THEN /\ UNCHANGED entities
         /\ materials' =
              IF /\ enabled
                 /\ type # BUILD_NONE
                 /\ G_CanPlaceBuildable(type, SnappedOrigin(type, origin), angles, builder)
                THEN DeductMaterials(builder, def)
                ELSE materials
    ELSE /\ entities' =
              [entities EXCEPT ![ent] =
                 [inuse |-> TRUE, eType |-> "ET_BUILDABLE", buildableType |-> type,
                  buildableOwner |-> IF builder # NoBuilder THEN builder ELSE -1,
                  origin |-> SnappedOrigin(type, origin), angles |-> angles,
                  health |-> def.health]]
         /\ materials' = DeductMaterials(builder, def)

\* a variant that leaves the entity's angles at zero
G_SpawnBuildableNoAngles(type, origin, angles, builder, ent) ==
  LET def == G_GetBuildPieceDef(type) IN
  IF ent = NoEntity
    THEN UNCHANGED <<entities, materials>>
    ELSE /\ entities' =
              [entities EXCEPT ![ent] =
                 [inuse |-> TRUE, eType |-> "ET_BUILDABLE", buildableType |-> type,
                  buildableOwner |-> IF builder # NoBuilder THEN builder ELSE -1,
                  origin |-> SnappedOrigin(type, origin), angles |-> <<0, 0, 0>>,
                  health |-> def.health]]
         /\ materials' = DeductMaterials(builder, def)

\* G_SpawnBuildable when it returns ent (SpawnResult): the entity set up, the
\* materials deducted
G_SpawnBuildable(type, origin, angles, builder, ent) ==
  LET def == G_GetBuildPieceDef(type) IN
  IF ent = NoEntity
    THEN UNCHANGED <<entities, materials>>
    ELSE /\ entities' =
              [entities EXCEPT ![ent] =
                 [inuse |-> TRUE, eType |-> "ET_BUILDABLE", buildableType |-> type,
                  buildableOwner |-> IF builder # NoBuilder THEN builder ELSE -1,
                  origin |-> SnappedOrigin(type, origin), angles |-> angles,
                  health |-> def.health]]
         /\ materials' = DeductMaterials(builder, def)

\* the record of a call, kept in `last`
Call(op, client, type, origin, spawned, signals, prevBuildTime) ==
  [op |-> op, client |-> client, type |-> type, origin |-> origin,
   spawned |-> spawned, signals |-> signals, prevBuildTime |-> prevBuildTime]

NoOrigin == <<0, 0, 0>>

\* ---------------------------------------------------------------------------
\* Initial state: no buildables, clients connected and not yet spawned.
\* `free` slots are free, `others` slots hold other entities (players, items).
\* ---------------------------------------------------------------------------
InitWith(free, others, starts, caps) ==
  /\ enabled = TRUE
  /\ startMaterials \in starts
  /\ maxStructures \in caps
  /\ time = 0
  /\ materials = [c \in Clients |-> 0]
  /\ buildState = [c \in Clients |-> ZeroBuildState]
  /\ entities = [i \in 1..(free + others) |-> IF i <= free THEN FreeEntity ELSE OtherEntity]
  /\ last = Call("init", NoBuilder, BUILD_NONE, NoOrigin, NoEntity, {}, 0)
  /\ CG_InitBuildingSystem

\* ---------------------------------------------------------------------------
\* Operations
\* ---------------------------------------------------------------------------
\* the server frame advances level.time
Tick(dt, limit) ==
  /\ time + dt <= limit
  /\ time' = time + dt
  /\ last' = Call("tick", NoBuilder, BUILD_NONE, NoOrigin, NoEntity, {}, 0)
  /\ UNCHANGED <<enabled, startMaterials, maxStructures, materials, buildState, entities>>

\* the administrator sets g_buildingEnabled
SetEnabled(v) ==
  /\ enabled' = v
  /\ last' = Call("set_enabled", NoBuilder, BUILD_NONE, NoOrigin, NoEntity, {}, 0)
  /\ UNCHANGED <<startMaterials, maxStructures, time, materials, buildState, entities>>

\* a variant that gives the materials and leaves the session as it was
G_BuildingPlayerSpawnNoReset(c) ==
  /\ materials' = IF enabled THEN [materials EXCEPT ![c] = startMaterials] ELSE materials
  /\ last' = Call("player_spawn", c, BUILD_NONE, NoOrigin, NoEntity, {}, 0)
  /\ UNCHANGED <<enabled, startMaterials, maxStructures, time, entities, buildState>>

\* a variant that clears the build state of every client
G_BuildingPlayerSpawnAll(c) ==
  /\ materials' = IF enabled THEN [materials EXCEPT ![c] = startMaterials] ELSE materials
  /\ buildState' = [d \in Clients |-> ZeroBuildState]
  /\ last' = Call("player_spawn", c, BUILD_NONE, NoOrigin, NoEntity, {}, 0)
  /\ UNCHANGED <<enabled, startMaterials, maxStructures, time, entities>>

\* G_BuildingPlayerSpawn
G_BuildingPlayerSpawn(c) ==
  /\ materials' = IF enabled THEN [materials EXCEPT ![c] = startMaterials] ELSE materials
  /\ buildState' = [buildState EXCEPT ![c] = ZeroBuildState]
  /\ last' = Call("player_spawn", c, BUILD_NONE, NoOrigin, NoEntity, {}, 0)
  /\ UNCHANGED <<enabled, startMaterials, maxStructures, time, entities>>

\* a variant without the g_buildingEnabled check
Cmd_BuildMode_fNoGate(c) ==
  /\ IF ~buildState[c].active
       THEN /\ buildState' = [buildState EXCEPT ![c].active = TRUE,
                                                ![c].selectedType = BUILD_WALL,
                                                ![c].rotation = 0]
            /\ last' = Call("buildmode", c, BUILD_NONE, NoOrigin, NoEntity,
                            {"print: Build mode ON"}, 0)
       ELSE /\ buildState' = [buildState EXCEPT ![c].active = FALSE]
            /\ last' = Call("buildmode", c, BUILD_NONE, NoOrigin, NoEntity,
                            {"print: Build mode OFF"}, 0)
  /\ UNCHANGED <<enabled, startMaterials, maxStructures, time, materials, entities>>

\* a variant whose activation keeps the selection and the rotation
Cmd_BuildMode_fNoReset(c) ==
  /\ IF ~enabled
       THEN /\ UNCHANGED buildState
            /\ last' = Call("buildmode", c, BUILD_NONE, NoOrigin, NoEntity,
                            {"print: Building is disabled on this server"}, 0)
       ELSE IF ~buildState[c].active
         THEN /\ buildState' = [buildState EXCEPT ![c].active = TRUE]
              /\ last' = Call("buildmode", c, BUILD_NONE, NoOrigin, NoEntity,
                              {"print: Build mode ON"}, 0)
         ELSE /\ buildState' = [buildState EXCEPT ![c].active = FALSE]
              /\ last' = Call("buildmode", c, BUILD_NONE, NoOrigin, NoEntity,
                              {"print: Build mode OFF"}, 0)
  /\ UNCHANGED <<enabled, startMaterials, maxStructures, time, materials, entities>>

\* Cmd_BuildMode_f
Cmd_BuildMode_f(c) ==
  /\ IF ~enabled
       THEN /\ UNCHANGED buildState
            /\ last' = Call("buildmode", c, BUILD_NONE, NoOrigin, NoEntity,
                            {"print: Building is disabled on this server"}, 0)
       ELSE IF ~buildState[c].active
         THEN /\ buildState' = [buildState EXCEPT ![c].active = TRUE,
                                                  ![c].selectedType = BUILD_WALL,
                                                  ![c].rotation = 0]
              /\ last' = Call("buildmode", c, BUILD_NONE, NoOrigin, NoEntity,
                              {"print: Build mode ON"}, 0)
         ELSE /\ buildState' = [buildState EXCEPT ![c].active = FALSE]
              /\ last' = Call("buildmode", c, BUILD_NONE, NoOrigin, NoEntity,
                              {"print: Build mode OFF"}, 0)
  /\ UNCHANGED <<enabled, startMaterials, maxStructures, time, materials, entities>>

\* a variant whose range check lets BUILD_NUM_TYPES through
Cmd_BuildSelect_fOffByOne(c, type) ==
  /\ IF buildState[c].active /\ type > BUILD_NONE /\ type <= BUILD_NUM_TYPES
       THEN /\ buildState' = [buildState EXCEPT ![c].selectedType = type]
            /\ last' = Call("buildselect", c, type, NoOrigin, NoEntity,
                            {"print: Selected"}, 0)
       ELSE /\ UNCHANGED buildState
            /\ last' = Call("buildselect", c, type, NoOrigin, NoEntity, {}, 0)
  /\ UNCHANGED <<enabled, startMaterials, maxStructures, time, materials, entities>>

\* Cmd_BuildSelect_f
Cmd_BuildSelect_f(c, type) ==
  /\ IF buildState[c].active /\ type > BUILD_NONE /\ type < BUILD_NUM_TYPES
       THEN /\ buildState' = [buildState EXCEPT ![c].selectedType = type]
            /\ last' = Call("buildselect", c, type, NoOrigin, NoEntity,
                            {"print: Selected"}, 0)
       ELSE /\ UNCHANGED buildState
            /\ last' = Call("buildselect", c, type, NoOrigin, NoEntity, {}, 0)
  /\ UNCHANGED <<enabled, startMaterials, maxStructures, time, materials, entities>>

\* a variant that adds 90 without the modulo
Cmd_BuildRotate_fNoWrap(c) ==
  /\ IF buildState[c].active
       THEN buildState' = [buildState EXCEPT ![c].rotation = @ + 90]
       ELSE UNCHANGED buildState
  /\ last' = Call("buildrotate", c, BUILD_NONE, NoOrigin, NoEntity, {}, 0)
  /\ UNCHANGED <<enabled, startMaterials, maxStructures, time, materials, entities>>

\* a variant without the check of buildState.active
Cmd_BuildRotate_fAlways(c) ==
  /\ buildState' = [buildState EXCEPT ![c].rotation = (@ + 90) % 360]
  /\ last' = Call("buildrotate", c, BUILD_NONE, NoOrigin, NoEntity, {}, 0)
  /\ UNCHANGED <<enabled, startMaterials, maxStructures, time, materials, entities>>

\* Cmd_BuildRotate_f
Cmd_BuildRotate_f(c) ==
  /\ IF buildState[c].active
       THEN buildState' = [buildState EXCEPT ![c].rotation = (@ + 90) % 360]
       ELSE UNCHANGED buildState
  /\ last' = Call("buildrotate", c, BUILD_NONE, NoOrigin, NoEntity, {}, 0)
  /\ UNCHANGED <<enabled, startMaterials, maxStructures, time, materials, entities>>

\* a variant that still rejects at lastBuildTime + BUILD_COOLDOWN_MS
CooldownActiveOffByOne(c) ==
  time <= buildState[c].lastBuildTime + BUILD_COOLDOWN_MS

\* the cooldown check of Cmd_BuildPlace_f
CooldownActive(c) ==
  time < buildState[c].lastBuildTime + BUILD_COOLDOWN_MS

\* a variant that rejects a balance equal to the cost
NotEnoughMaterialsOffByOne(c, def) ==
  materials[c] <= def.materialCost

\* "Check materials before tracing" of Cmd_BuildPlace_f
NotEnoughMaterials(c, def) ==
  materials[c] < def.materialCost

\* a variant that records the time whatever G_SpawnBuildable returned
BuildStateAfterPlaceAlways(c, ent) ==
  [buildState EXCEPT ![c].lastBuildTime = time]

\* "Attempt to place" of Cmd_BuildPlace_f: lastBuildTime is set on success only
BuildStateAfterPlace(c, ent) ==
  IF ent # NoEntity
    THEN [buildState EXCEPT ![c].lastBuildTime = time]
    ELSE buildState

\* Cmd_BuildPlace_f; origin is tr.endpos of the trace along the view direction
Cmd_BuildPlace_f(c, origin) ==
  LET bs == buildState[c]
      def == G_GetBuildPieceDef(bs.selectedType)
      angles == <<0, bs.rotation, 0>>
  IN
  /\ IF ~bs.active \/ CooldownActive(c)
       THEN /\ UNCHANGED <<materials, buildState, entities>>
            /\ last' = Call("buildplace", c, bs.selectedType, origin, NoEntity, {},
                            bs.lastBuildTime)
       ELSE IF NotEnoughMaterials(c, def)
         THEN /\ UNCHANGED <<materials, buildState, entities>>
              /\ last' = Call("buildplace", c, bs.selectedType, origin, NoEntity,
                              {"print: Not enough materials", "EV_BUILD_FAIL"},
                              bs.lastBuildTime)
         ELSE \E ent \in {SpawnResult(bs.selectedType, origin, angles, c)} :
                /\ G_SpawnBuildable(bs.selectedType, origin, angles, c, ent)
                /\ buildState' = BuildStateAfterPlace(c, ent)
                /\ last' = Call("buildplace", c, bs.selectedType, origin, ent,
                                SpawnSignals(bs.selectedType, origin, angles, c, ent)
                                  \cup (IF ent # NoEntity
                                          THEN {}
                                          ELSE {"EV_BUILD_FAIL", "print: Cannot place here"}),
                                bs.lastBuildTime)
  /\ UNCHANGED <<enabled, startMaterials, maxStructures, time>>

\* a variant that spawns the effect and does not free the entity
G_BuildableDieNoFree(i) ==
  entities' = [entities EXCEPT ![i].health = 0]

\* G_BuildableDie: the destruction effect, then G_FreeEntity( self )
G_BuildableDie(i) ==
  entities' = [entities EXCEPT ![i] = FreeEntity]

\* damage to a buildable (takedamage is set): health drops, die() runs at health <= 0
Damage(i, amount) ==
  /\ IsBuildable(entities[i])
  /\ IF entities[i].health - amount <= 0
       THEN /\ G_BuildableDie(i)
            /\ last' = Call("damage", NoBuilder, entities[i].buildableType,
                            entities[i].origin, i, {"EV_BUILD_DESTROY"}, 0)
       ELSE /\ entities' = [entities EXCEPT ![i].health = @ - amount]
            /\ last' = Call("damage", NoBuilder, entities[i].buildableType,
                            entities[i].origin, i, {}, 0)
  /\ UNCHANGED <<enabled, startMaterials, maxStructures, time, materials, buildState>>

\* a direct call of G_SpawnBuildable( type, origin, angles, builder )
SpawnCall(type, origin, angles, builder) ==
  /\ \E ent \in {SpawnResult(type, origin, angles, builder)} :
       /\ G_SpawnBuildable(type, origin, angles, builder, ent)
       /\ last' = Call("spawn", builder, type, origin, ent,
                       SpawnSignals(type, origin, angles, builder, ent), 0)
  /\ UNCHANGED <<enabled, startMaterials, maxStructures, time, buildState>>

\* a coordinate of the origin is NaN
HasNaN(origin) == \E k \in 1..3 : origin[k] = NaN

\* a direct call of G_CanPlaceBuildable( type, origin, angles, builder ): it
\* changes nothing and answers qtrue or qfalse
CanPlaceCall(type, origin, angles, builder) ==
  /\ last' = Call("canplace", builder, type, origin, NoEntity,
                  IF G_CanPlaceBuildable(type, origin, angles, builder)
                    THEN {"qtrue"} ELSE {"qfalse"},
                  0)
  /\ UNCHANGED <<enabled, startMaterials, maxStructures, time, materials, buildState,
                 entities>>

\* a direct call of G_SpawnBuildable with any value of the type. A type out of
\* range has gridSnap 0, so the origin handed to trap_Trace is NaN; what the
\* engine answers there is not decided by this code: nanSolid is its answer
SpawnCallAnyType(type, origin, angles, builder, nanSolid) ==
  LET refusedByTrace == HasNaN(SnappedOrigin(type, origin)) /\ nanSolid IN
  /\ \E ent \in {IF refusedByTrace
                    THEN NoEntity
                    ELSE SpawnResult(type, origin, angles, builder)} :
       /\ G_SpawnBuildable(type, origin, angles, builder, ent)
       /\ last' = Call("spawn", builder, type, origin, ent,
                       IF refusedByTrace
                         THEN {}
                         ELSE SpawnSignals(type, origin, angles, builder, ent),
                       0)
  /\ UNCHANGED <<enabled, startMaterials, maxStructures, time, buildState>>

\* a call of G_SnapToGrid( origin, BUILD_GRID_SIZE ) on the position at hand:
\* it overwrites the position with the snapped one
SnapCall ==
  /\ last' = Call("snap", NoBuilder, BUILD_NONE,
                  G_SnapToGrid(last.origin, BUILD_GRID_SIZE), NoEntity, {}, 0)
  /\ UNCHANGED <<enabled, startMaterials, maxStructures, time, materials, buildState,
                 entities>>

\* ---------------------------------------------------------------------------
\* The cgame of client 1 (cg_building.c) and the way its commands reach the
\* game module
\* ---------------------------------------------------------------------------
\* the client whose cgame is modelled
CgClient == 1

\* trap_SendClientCommand( text ): the command joins those in flight
SendClientCommand(name, arg, limit) ==
  /\ Len(clientCommands) < limit
  /\ clientCommands' = Append(clientCommands, [name |-> name, arg |-> arg])

\* CG_UpdateBuildPreview: canPlace from the view trace (hit) of an active client
CG_UpdateBuildPreview(hit) ==
  /\ cg_buildState' =
       IF ~cg_buildState.active
         THEN cg_buildState
         ELSE [cg_buildState EXCEPT !.canPlace = hit]
  /\ UNCHANGED <<gameVars, clientCommands>>

\* CG_BuildMode_f
CG_BuildMode_f(limit) ==
  /\ cg_buildState' =
       IF ~cg_buildState.active
         THEN [cg_buildState EXCEPT !.active = TRUE, !.selectedType = BUILD_WALL,
                                    !.rotation = 0]
         ELSE [cg_buildState EXCEPT !.active = FALSE]
  /\ SendClientCommand("buildmode", 0, limit)
  /\ UNCHANGED gameVars

\* CG_BuildSelect_f; type is atoi of the argument
CG_BuildSelect_f(type, limit) ==
  /\ IF type > 0 /\ type < BUILD_NUM_TYPES
       THEN /\ cg_buildState' = [cg_buildState EXCEPT !.selectedType = type]
            /\ SendClientCommand("buildselect", type, limit)
       ELSE UNCHANGED <<cg_buildState, clientCommands>>
  /\ UNCHANGED gameVars

\* CG_BuildRotate_f
CG_BuildRotate_f(limit) ==
  /\ cg_buildState' =
       [cg_buildState EXCEPT !.rotation = (cg_buildState.rotation + 90) % 360]
  /\ SendClientCommand("buildrotate", 0, limit)
  /\ UNCHANGED gameVars

\* CG_BuildPlace_f
CG_BuildPlace_f(limit) ==
  /\ IF cg_buildState.active /\ cg_buildState.canPlace
       THEN SendClientCommand("buildplace", 0, limit)
       ELSE UNCHANGED clientCommands
  /\ UNCHANGED <<gameVars, cg_buildState>>

\* the server runs the oldest command in flight: the handler of its name;
\* origin is tr.endpos of the view trace of a "buildplace"
ClientCommand(origin) ==
  /\ clientCommands # <<>>
  /\ LET cmd == Head(clientCommands) IN
       \/ cmd.name = "buildmode" /\ Cmd_BuildMode_f(CgClient)
       \/ cmd.name = "buildselect" /\ Cmd_BuildSelect_f(CgClient, cmd.arg)
       \/ cmd.name = "buildrotate" /\ Cmd_BuildRotate_f(CgClient)
       \/ cmd.name = "buildplace" /\ Cmd_BuildPlace_f(CgClient, origin)
  /\ clientCommands' = Tail(clientCommands)
  /\ UNCHANGED cg_buildState

\* ---------------------------------------------------------------------------
\* Spec: every command of two clients, one free entity slot, one free cell
\* ---------------------------------------------------------------------------
\* level.time advances by this between commands
FrameSteps == {100}
\* the values of g_buildingStartMaterials and g_buildingMaxStructures tried
StartChoices == {MaxStartMaterials}
CapChoices == {0, FreeSlots, FreeSlots + 1}
\* tr.endpos of the view trace of Cmd_BuildPlace_f: a free place, one inside the world
PlaceOrigins == {<<0, 0, 0>>, <<0, 0, -64>>}
\* the argument of "buildselect <type>"
SelectArgs == {BUILD_NONE, BUILD_WALL, BUILD_NUM_TYPES}
\* damage dealt to a buildable in one hit
DamageAmounts == {150}

Init == InitWith(FreeSlots, OtherSlots, StartChoices, CapChoices)

Next ==
  \/ \E dt \in FrameSteps : Tick(dt, MaxTime) /\ ServerOnly
  \/ \E v \in BOOLEAN : SetEnabled(v) /\ ServerOnly
  \/ \E c \in Clients : G_BuildingPlayerSpawn(c) /\ ServerOnly
  \/ \E c \in Clients : Cmd_BuildMode_f(c) /\ ServerOnly
  \/ \E c \in Clients, type \in SelectArgs : Cmd_BuildSelect_f(c, type) /\ ServerOnly
  \/ \E c \in Clients : Cmd_BuildRotate_f(c) /\ ServerOnly
  \/ \E c \in Clients, origin \in PlaceOrigins : Cmd_BuildPlace_f(c, origin) /\ ServerOnly
  \/ \E i \in Slots, amount \in DamageAmounts : Damage(i, amount) /\ ServerOnly

Spec == Init /\ [][Next]_vars

\* ---------------------------------------------------------------------------
\* SpecPlace: one client placing walls and roofs over time, several cells
\* ---------------------------------------------------------------------------
PlaceFrameSteps == {99, 100}
PlaceStartChoices == {5, PlaceMaxStartMaterials}
PlaceCapChoices == {PlaceFreeSlots - 1, PlaceFreeSlots + 1}
\* the same cell twice, a touching cell, two separate cells, a place inside the
\* world
PlacePlaceOrigins ==
  {<<0, 0, 0>>, <<20, -10, 5>>, <<64, 0, 0>>, <<128, 0, 0>>, <<0, 128, 0>>,
   <<0, 0, -64>>}
PlaceSelectArgs == {BUILD_ROOF}
PlaceDamageAmounts == {100}

InitPlace == InitWith(PlaceFreeSlots, OtherSlots, PlaceStartChoices, PlaceCapChoices)

NextPlace ==
  \/ \E dt \in PlaceFrameSteps : Tick(dt, PlaceMaxTime) /\ ServerOnly
  \/ \E v \in BOOLEAN : SetEnabled(v) /\ ServerOnly
  \/ G_BuildingPlayerSpawn(1) /\ ServerOnly
  \/ Cmd_BuildMode_f(1) /\ ServerOnly
  \/ \E type \in PlaceSelectArgs : Cmd_BuildSelect_f(1, type) /\ ServerOnly
  \/ \E origin \in PlacePlaceOrigins : Cmd_BuildPlace_f(1, origin) /\ ServerOnly
  \/ \E i \in Slots, amount \in PlaceDamageAmounts : Damage(i, amount) /\ ServerOnly

SpecPlace == InitPlace /\ [][NextPlace]_vars

\* ---------------------------------------------------------------------------
\* SpecSpawn: direct calls of G_SpawnBuildable, every piece type, many cells
\* ---------------------------------------------------------------------------
SpawnTypes == {BUILD_NONE, BUILD_WALL, BUILD_FLOOR, BUILD_RAMP, BUILD_ROOF}
\* the same cell twice, cells touching along x and z, a separate cell,
\* a place inside the world
SpawnOrigins ==
  {<<0, 0, 0>>, <<20, -10, 5>>, <<64, 0, 0>>, <<0, 0, 64>>, <<128, 0, 0>>,
   <<0, 0, -64>>}
SpawnBuilders == {1}
\* a call without a builder
SpawnWorldOrigin == <<128, 0, 0>>
SpawnCapChoices == {SpawnFreeSlots - 1, SpawnFreeSlots + 1}
SpawnDamageAmounts == {150}

InitSpawn ==
  InitWith(SpawnFreeSlots, OtherSlots, {PlaceMaxStartMaterials}, SpawnCapChoices)

NextSpawn ==
  \/ G_BuildingPlayerSpawn(1) /\ ServerOnly
  \/ \E type \in SpawnTypes, origin \in SpawnOrigins, builder \in SpawnBuilders :
       SpawnCall(type, origin, <<0, 0, 0>>, builder) /\ ServerOnly
  \/ SpawnCall(BUILD_WALL, SpawnWorldOrigin, <<0, 0, 0>>, NoBuilder) /\ ServerOnly
  \/ \E i \in Slots, amount \in SpawnDamageAmounts : Damage(i, amount) /\ ServerOnly

SpecSpawn == InitSpawn /\ [][NextSpawn]_vars

\* ---------------------------------------------------------------------------
\* SpecWalls: one client, the default configuration, walls placed in a row
\* ---------------------------------------------------------------------------
\* the k-th wall goes 128 units further along x: no two of them overlap
WallOrigin == <<128 * G_CountBuildables, 0, 0>>

InitWalls ==
  InitWith(WallsFreeSlots, OtherSlots, {DefaultStartMaterials}, {DefaultMaxStructures})

NextWalls ==
  \/ last.op = "init" /\ G_BuildingPlayerSpawn(1) /\ ServerOnly
  \/ last.op # "init" /\ Tick(BUILD_COOLDOWN_MS, WallsMaxTime) /\ ServerOnly
  \/ last.op # "init" /\ Cmd_BuildMode_f(1) /\ ServerOnly
  \/ last.op # "init" /\ Cmd_BuildPlace_f(1, WallOrigin) /\ ServerOnly

SpecWalls == InitWalls /\ [][NextWalls]_vars

\* ---------------------------------------------------------------------------
\* SpecSession: the build sessions of two clients under every configuration of
\* g_buildingEnabled; client 1 selects every type and places, client 2 toggles
\* and rotates
\* ---------------------------------------------------------------------------
\* the argument of "buildselect <type>": atoi of any text
SessionSelectArgs == -1 .. (BUILD_NUM_TYPES + 1)
SessionOrigin == <<0, 0, 0>>
SessionDamageAmounts == {150}

InitSession ==
  /\ enabled \in BOOLEAN
  /\ startMaterials = MaxStartMaterials
  /\ maxStructures = DefaultMaxStructures
  /\ time = 0
  /\ materials = [c \in Clients |-> 0]
  /\ buildState = [c \in Clients |-> ZeroBuildState]
  /\ entities = [i \in 1..(SessionFreeSlots + OtherSlots) |->
                   IF i <= SessionFreeSlots THEN FreeEntity ELSE OtherEntity]
  /\ last = Call("init", NoBuilder, BUILD_NONE, NoOrigin, NoEntity, {}, 0)
  /\ CG_InitBuildingSystem

NextSession ==
  \/ Tick(BUILD_COOLDOWN_MS, SessionMaxTime) /\ ServerOnly
  \/ \E v \in BOOLEAN : SetEnabled(v) /\ ServerOnly
  \/ \E c \in Clients : G_BuildingPlayerSpawn(c) /\ ServerOnly
  \/ \E c \in Clients : Cmd_BuildMode_f(c) /\ ServerOnly
  \/ \E type \in SessionSelectArgs : Cmd_BuildSelect_f(1, type) /\ ServerOnly
  \/ \E c \in Clients : Cmd_BuildRotate_f(c) /\ ServerOnly
  \/ Cmd_BuildPlace_f(1, SessionOrigin) /\ ServerOnly
  \/ \E i \in Slots, amount \in SessionDamageAmounts : Damage(i, amount) /\ ServerOnly

SpecSession == InitSession /\ [][NextSession]_vars

\* ---------------------------------------------------------------------------
\* SpecTypes: direct calls of G_CanPlaceBuildable and G_SpawnBuildable with
\* every value of the type argument, in range or not
\* ---------------------------------------------------------------------------
TypeArgs == {-1, BUILD_NONE, BUILD_WALL, BUILD_ROOF, BUILD_NUM_TYPES}
\* a free place, another one, a place inside the world
TypesOrigins == {<<0, 0, 0>>, <<128, 0, 0>>, <<0, 0, -64>>}
TypesBuilders == {NoBuilder, 1}
TypesDamageAmounts == {150}

InitTypes ==
  InitWith(TypesFreeSlots, OtherSlots, {MaxStartMaterials}, {TypesFreeSlots + 1})

NextTypes ==
  \/ G_BuildingPlayerSpawn(1) /\ ServerOnly
  \/ \E type \in TypeArgs, origin \in TypesOrigins, builder \in TypesBuilders :
       CanPlaceCall(type, origin, <<0, 0, 0>>, builder) /\ ServerOnly
  \/ \E type \in TypeArgs, origin \in TypesOrigins, builder \in TypesBuilders,
        nanSolid \in BOOLEAN :
       SpawnCallAnyType(type, origin, <<0, 0, 0>>, builder, nanSolid) /\ ServerOnly
  \/ \E i \in Slots, amount \in TypesDamageAmounts : Damage(i, amount) /\ ServerOnly

SpecTypes == InitTypes /\ [][NextTypes]_vars

\* ---------------------------------------------------------------------------
\* SpecSnap: G_SnapToGrid applied to positions, and again to what it returned
\* ---------------------------------------------------------------------------
\* every x between the bounds; on y and z the ties at half a quantum and
\* their neighbours, below and above zero
SnapXs == (0 - SnapMaxCoord) .. SnapMaxCoord
SnapYs == {-96, -32, 0, 32}
SnapZs == {-96, -33, 31, 32}

InitSnap ==
  /\ enabled = TRUE
  /\ startMaterials = DefaultStartMaterials
  /\ maxStructures = DefaultMaxStructures
  /\ time = 0
  /\ materials = [c \in Clients |-> 0]
  /\ buildState = [c \in Clients |-> ZeroBuildState]
  /\ entities = [i \in 1..OtherSlots |-> OtherEntity]
  /\ \E x \in SnapXs, y \in SnapYs, z \in SnapZs :
       last = Call("init", NoBuilder, BUILD_NONE, <<x, y, z>>, NoEntity, {}, 0)
  /\ CG_InitBuildingSystem

NextSnap == SnapCall /\ ServerOnly

SpecSnap == InitSnap /\ [][NextSnap]_vars

\* ---------------------------------------------------------------------------
\* SpecActors: two clients side by side, each with the spawn hook, toggleMode
\* and requestPlace, client 1 selecting and client 2 rotating, two free cells
\* ---------------------------------------------------------------------------
ActorsOrigins == {<<0, 0, 0>>, <<128, 0, 0>>}
ActorsSelectArgs == {BUILD_ROOF}

InitActors ==
  InitWith(ActorsFreeSlots, OtherSlots, {MaxStartMaterials}, {ActorsFreeSlots + 1})

NextActors ==
  \/ Tick(BUILD_COOLDOWN_MS, ActorsMaxTime) /\ ServerOnly
  \/ \E c \in Clients : G_BuildingPlayerSpawn(c) /\ ServerOnly
  \/ \E c \in Clients : Cmd_BuildMode_f(c) /\ ServerOnly
  \/ \E type \in ActorsSelectArgs : Cmd_BuildSelect_f(1, type) /\ ServerOnly
  \/ Cmd_BuildRotate_f(2) /\ ServerOnly
  \/ \E c \in Clients, origin \in ActorsOrigins : Cmd_BuildPlace_f(c, origin) /\ ServerOnly

SpecActors == InitActors /\ [][NextActors]_vars

\* ---------------------------------------------------------------------------
\* SpecCooldown: one client placing walls while it walks along y, so that the
\* row a Structure stands in tells the time of the request that placed it
\* ---------------------------------------------------------------------------
\* level.time advances by this between commands
CooldownFrameSteps == {50}
\* tr.endpos of a request made now: two cells of the row the client has reached
CooldownOrigins == {<<0, 128 * (time \div 50), 0>>, <<128, 128 * (time \div 50), 0>>}

InitCooldown ==
  InitWith(CooldownFreeSlots, OtherSlots, {PlaceMaxStartMaterials},
           {DefaultMaxStructures})

NextCooldown ==
  \/ \E dt \in CooldownFrameSteps : Tick(dt, CooldownMaxTime) /\ ServerOnly
  \/ G_BuildingPlayerSpawn(1) /\ ServerOnly
  \/ Cmd_BuildMode_f(1) /\ ServerOnly
  \/ \E origin \in CooldownOrigins : Cmd_BuildPlace_f(1, origin) /\ ServerOnly

SpecCooldown == InitCooldown /\ [][NextCooldown]_vars

\* ---------------------------------------------------------------------------
\* SpecGate: g_buildingEnabled switched off and on while one client places and
\* while G_CanPlaceBuildable and G_SpawnBuildable are called directly
\* ---------------------------------------------------------------------------
GateOrigins == {<<0, 0, 0>>, <<128, 0, 0>>}
GateBuilders == {NoBuilder, 1}
GateDamageAmounts == {150}

InitGate ==
  InitWith(GateFreeSlots, OtherSlots, {PlaceMaxStartMaterials}, {DefaultMaxStructures})

NextGate ==
  \/ Tick(BUILD_COOLDOWN_MS, GateMaxTime) /\ ServerOnly
  \/ \E v \in BOOLEAN : SetEnabled(v) /\ ServerOnly
  \/ G_BuildingPlayerSpawn(1) /\ ServerOnly
  \/ Cmd_BuildMode_f(1) /\ ServerOnly
  \/ \E origin \in GateOrigins : Cmd_BuildPlace_f(1, origin) /\ ServerOnly
  \/ \E origin \in GateOrigins, builder \in GateBuilders :
       CanPlaceCall(BUILD_WALL, origin, <<0, 0, 0>>, builder) /\ ServerOnly
  \/ \E origin \in GateOrigins, builder \in GateBuilders :
       SpawnCall(BUILD_WALL, origin, <<0, 0, 0>>, builder) /\ ServerOnly
  \/ \E i \in Slots, amount \in GateDamageAmounts : Damage(i, amount) /\ ServerOnly

SpecGate == InitGate /\ [][NextGate]_vars

\* ---------------------------------------------------------------------------
\* SpecMirror: the cgame of client 1 sending its commands, the server running
\* them in order, spawn/respawn of the client and g_buildingEnabled switched
\* ---------------------------------------------------------------------------
MirrorSelectArgs == {BUILD_NONE, BUILD_ROOF}
MirrorOrigin == <<0, 0, 0>>

InitMirror ==
  InitWith(MirrorFreeSlots, OtherSlots, {MaxStartMaterials}, {DefaultMaxStructures})

NextMirror ==
  \/ Tick(BUILD_COOLDOWN_MS, MirrorMaxTime) /\ ServerOnly
  \/ \E v \in BOOLEAN : SetEnabled(v) /\ ServerOnly
  \/ G_BuildingPlayerSpawn(CgClient) /\ ServerOnly
  \/ \E hit \in BOOLEAN : CG_UpdateBuildPreview(hit)
  \/ CG_BuildMode_f(MirrorMaxInFlight)
  \/ \E type \in MirrorSelectArgs : CG_BuildSelect_f(type, MirrorMaxInFlight)
  \/ CG_BuildRotate_f(MirrorMaxInFlight)
  \/ CG_BuildPlace_f(MirrorMaxInFlight)
  \/ ClientCommand(MirrorOrigin)

SpecMirror == InitMirror /\ [][NextMirror]_vars

\* ---------------------------------------------------------------------------
\* Properties
\* ---------------------------------------------------------------------------
RealTypes == {BUILD_WALL, BUILD_FLOOR, BUILD_RAMP, BUILD_ROOF}

Max2(a, b) == IF a >= b THEN a ELSE b
Min2(a, b) == IF a <= b THEN a ELSE b

\* world-space AABB of a piece of a real type at an origin
BoxMins(type, origin) == [k \in 1..3 |-> origin[k] + buildPieceDefs[type].mins[k]]
BoxMaxs(type, origin) == [k \in 1..3 |-> origin[k] + buildPieceDefs[type].maxs[k]]

\* two closed boxes have a point in common
ClosedOverlap(aMin, aMax, bMin, bMax) ==
  \A k \in 1..3 : Max2(aMin[k], bMin[k]) <= Min2(aMax[k], bMax[k])

\* two boxes have a point in common but no interior point: they only touch
Touching(aMin, aMax, bMin, bMax) ==
  /\ ClosedOverlap(aMin, aMax, bMin, bMax)
  /\ \E k \in 1..3 : Max2(aMin[k], bMin[k]) = Min2(aMax[k], bMax[k])

\* the piece of the last call, at the origin the grid gives it
LastOrigin == SnappedOrigin(last.type, last.origin)
LastMins == BoxMins(last.type, LastOrigin)
LastMaxs == BoxMaxs(last.type, LastOrigin)

\* the last call was a placement request that got past the session checks
\* (active session, cooldown over, materials at hand) and was refused
LastPlaceRefusedBySpawn ==
  /\ last.op = "buildplace"
  /\ last.spawned = NoEntity
  /\ "print: Cannot place here" \in last.signals

\* C1: the number of live Structures never exceeds g_buildingMaxStructures
C1_CountAtMostMax == G_CountBuildables <= maxStructures

\* C1 witness: the cap is reached and a further request of a client with
\* materials has been refused
C1_Witness ==
  /\ maxStructures > 0
  /\ G_CountBuildables = maxStructures
  /\ LastPlaceRefusedBySpawn
  /\ enabled

\* C2, state part: no two live Structures have intersecting world AABBs
C2_NoTwoOverlap ==
  \A i, j \in LiveSlots :
    i # j => ~ClosedOverlap(HitMins(entities[i]), HitMaxs(entities[i]),
                            HitMins(entities[j]), HitMaxs(entities[j]))

\* C2, step part: a spawn that returns a Structure put it at the snapped origin,
\* where its AABB intersects no Structure that was live
C2_CommitOnlyIfFree ==
  (last'.op \in {"spawn", "buildplace"} /\ last'.spawned # NoEntity) =>
    LET o == G_SnapToGrid(last'.origin, BUILD_GRID_SIZE) IN
    /\ entities'[last'.spawned].origin = o
    /\ \A i \in LiveSlots :
         ~ClosedOverlap(BoxMins(last'.type, o), BoxMaxs(last'.type, o),
                        HitMins(entities[i]), HitMaxs(entities[i]))

\* C2: live Structures never overlap, and a spawn is committed only where the
\* new piece's AABB intersects no live Structure's AABB
C2_NonOverlapping == []C2_NoTwoOverlap /\ [][C2_CommitOnlyIfFree]_vars

\* C2 witness: a spawn has been committed next to another live Structure
C2_Witness ==
  /\ last.op = "spawn"
  /\ last.spawned # NoEntity
  /\ Cardinality(LiveSlots) >= 2

\* C3: a spawn call with an actor debits the piece's cost exactly when it
\* returns a Structure, in the step that makes the Structure live, and
\* leaves every balance alone when it returns null
C3_DebitWithSpawn ==
  [][(last'.op = "spawn" /\ last'.client # NoBuilder) =>
       IF last'.spawned # NoEntity
         THEN /\ ~IsBuildable(entities[last'.spawned])
              /\ IsBuildable(entities'[last'.spawned])
              /\ materials' = [materials EXCEPT ![last'.client] =
                                 @ - buildPieceDefs[last'.type].materialCost]
         ELSE /\ materials' = materials
              /\ entities' = entities]_vars

\* C3 witness: a spawn call of client 1 returned a Structure and the balance
\* is the starting amount less one wall
C3_Witness ==
  /\ last.op = "spawn"
  /\ last.client = 1
  /\ last.spawned # NoEntity
  /\ materials[1] = startMaterials - 10

\* C4: a rejected requestPlace changes no balance, no live Structure, not the
\* live count and not the session's lastBuildTime
C4_RejectChangesNothing ==
  [][(last'.op = "buildplace" /\ last'.spawned = NoEntity) =>
       /\ materials' = materials
       /\ entities' = entities
       /\ G_CountBuildables' = G_CountBuildables
       /\ buildState'[last'.client].lastBuildTime =
            buildState[last'.client].lastBuildTime]_vars

\* C4 witness: a request was refused because the piece overlaps a live
\* Structure, at a time later than the session's lastBuildTime
C4_Witness ==
  /\ LastPlaceRefusedBySpawn
  /\ enabled
  /\ G_CountBuildables < maxStructures
  /\ ~TraceStartSolid(LastOrigin, buildPieceDefs[last.type].mins,
                      buildPieceDefs[last.type].maxs)
  /\ \E i \in LiveSlots :
       ClosedOverlap(LastMins, LastMaxs, HitMins(entities[i]), HitMaxs(entities[i]))
  /\ time > buildState[last.client].lastBuildTime

\* C5: every actor's material balance is an integer >= 0
C5_BalanceNonNegative == \A c \in Clients : materials[c] \in Nat

\* C5 witness: an accepted request has debited a client's balance down to 0
C5_Witness ==
  /\ last.op = "buildplace"
  /\ last.spawned # NoEntity
  /\ startMaterials > 0
  /\ materials[last.client] = 0

\* C6: a request of an active session at a time before lastBuildTime +
\* BUILD_COOLDOWN_MS is rejected; at lastBuildTime + BUILD_COOLDOWN_MS or later
\* it is accepted when G_SpawnBuildable accepts it, and records the time
C6_Cooldown ==
  [][(last'.op = "buildplace" /\ buildState[last'.client].active) =>
       LET c == last'.client
           t0 == buildState[c].lastBuildTime
           bs == buildState[c]
       IN
       /\ time <= t0 + BUILD_COOLDOWN_MS - 1 =>
            /\ last'.spawned = NoEntity
            /\ UNCHANGED <<materials, entities, buildState>>
       /\ (/\ time >= t0 + BUILD_COOLDOWN_MS
           /\ SpawnResult(bs.selectedType, last'.origin, <<0, bs.rotation, 0>>, c)
                # NoEntity) =>
            /\ last'.spawned # NoEntity
            /\ buildState'[c].lastBuildTime = time]_vars

\* C6 witness: a request was accepted exactly BUILD_COOLDOWN_MS after the
\* accepted request before it
C6_Witness ==
  /\ last.op = "buildplace"
  /\ last.spawned # NoEntity
  /\ last.prevBuildTime > 0
  /\ time = last.prevBuildTime + BUILD_COOLDOWN_MS
  /\ buildState[last.client].lastBuildTime = time

\* the live Structures of the last call's type at the last call's snapped origin
LastTwins ==
  {i \in LiveSlots : /\ entities[i].buildableType = last.type
                     /\ entities[i].origin = LastOrigin}

\* C7: a spawn call that follows a successful spawn call of the same real type
\* at the same unsnapped origin returns null, because the piece overlaps the
\* first one, and exactly one Structure is live there
C7_SecondSpawnRejected ==
  [][(/\ last.op = "spawn" /\ last.spawned # NoEntity
      /\ last.type \in RealTypes
      /\ last'.op = "spawn"
      /\ last'.type = last.type /\ last'.origin = last.origin) =>
       /\ last'.spawned = NoEntity
       /\ OverlapsBuildable(buildPieceDefs[last.type], LastOrigin)
       /\ entities' = entities
       /\ Cardinality(LastTwins') = 1]_vars

\* C7 witness: a spawn call was refused while its twin is live, with materials
\* and room under the cap for another Structure
C7_Witness ==
  /\ last.op = "spawn"
  /\ last.spawned = NoEntity
  /\ last.type \in RealTypes
  /\ Cardinality(LastTwins) = 1
  /\ last.client # NoBuilder
  /\ materials[last.client] >= buildPieceDefs[last.type].materialCost
  /\ G_CountBuildables < maxStructures

\* C8: with as many live Structures as the configured maximum every request is
\* rejected and the count stays; a request is accepted only below the maximum,
\* and the count falls only when a Structure is destroyed
C8_CapRejects ==
  [][/\ (last'.op = "buildplace" /\ G_CountBuildables = maxStructures) =>
          /\ last'.spawned = NoEntity
          /\ G_CountBuildables' = maxStructures
     /\ (last'.op = "buildplace" /\ last'.spawned # NoEntity) =>
          G_CountBuildables < maxStructures
     /\ G_CountBuildables' < G_CountBuildables => last'.op = "damage"]_vars

\* C8 witness: the cap is the only reason a request was refused
C8_Witness ==
  /\ LastPlaceRefusedBySpawn
  /\ enabled
  /\ maxStructures > 0
  /\ G_CountBuildables = maxStructures
  /\ \E i \in Slots : ~entities[i].inuse
  /\ materials[last.client] >= buildPieceDefs[last.type].materialCost
  /\ ~TraceStartSolid(LastOrigin, buildPieceDefs[last.type].mins,
                      buildPieceDefs[last.type].maxs)
  /\ ~OverlapsBuildable(buildPieceDefs[last.type], LastOrigin)

\* C9: with 100 starting materials and walls of cost 10, every request of the
\* active session made after the cooldown succeeds while fewer than ten walls
\* stand, leaving 100 - 10 * walls; with ten walls standing it is refused for
\* lack of materials, the balance 0 and the count 10
C9_TenWalls ==
  (/\ last.op = "buildplace"
   /\ buildState[1].active
   /\ time >= last.prevBuildTime + BUILD_COOLDOWN_MS) =>
    \/ /\ last.spawned # NoEntity
       /\ G_CountBuildables <= 10
       /\ materials[1] = 100 - 10 * G_CountBuildables
    \/ /\ last.spawned = NoEntity
       /\ last.signals = {"print: Not enough materials", "EV_BUILD_FAIL"}
       /\ G_CountBuildables = 10
       /\ materials[1] = 0

\* C9 witness: the eleventh request was refused for lack of materials
C9_Witness ==
  /\ last.op = "buildplace"
  /\ buildState[1].active
  /\ time >= last.prevBuildTime + BUILD_COOLDOWN_MS
  /\ last.spawned = NoEntity
  /\ "print: Not enough materials" \in last.signals
  /\ G_CountBuildables = 10
  /\ G_CountBuildables < maxStructures
  /\ materials[1] = 0

\* C10, step part: a spawn call of a real type whose AABB at the snapped origin
\* touches a live Structure's AABB is rejected
C10_TouchRejected ==
  (/\ last'.op = "spawn"
   /\ last'.type \in RealTypes
   /\ \E i \in LiveSlots :
        LET o == G_SnapToGrid(last'.origin, BUILD_GRID_SIZE) IN
        Touching(BoxMins(last'.type, o), BoxMaxs(last'.type, o),
                 HitMins(entities[i]), HitMaxs(entities[i]))) =>
    /\ last'.spawned = NoEntity
    /\ entities' = entities

\* C10, state part: the intersection test answers the same with the boxes swapped
C10_Symmetric ==
  (last.op = "spawn" /\ last.type \in RealTypes) =>
    \A i \in LiveSlots :
      AABBIntersect(LastMins, LastMaxs, HitMins(entities[i]), HitMaxs(entities[i]))
        <=> AABBIntersect(HitMins(entities[i]), HitMaxs(entities[i]), LastMins, LastMaxs)

\* C10: a piece that only touches a live Structure counts as overlapping and is
\* rejected, and the test is symmetric
C10_TouchingOverlaps == [][C10_TouchRejected]_vars /\ []C10_Symmetric

\* C10 witness: a spawn call was refused though its piece only touches live
\* Structures, shares no interior point with any, and nothing else was wrong
C10_Witness ==
  /\ last.op = "spawn"
  /\ last.spawned = NoEntity
  /\ last.type \in RealTypes
  /\ \E i \in LiveSlots :
       Touching(LastMins, LastMaxs, HitMins(entities[i]), HitMaxs(entities[i]))
  /\ \A i \in LiveSlots :
       ClosedOverlap(LastMins, LastMaxs, HitMins(entities[i]), HitMaxs(entities[i]))
         => Touching(LastMins, LastMaxs, HitMins(entities[i]), HitMaxs(entities[i]))
  /\ last.client # NoBuilder
  /\ materials[last.client] >= buildPieceDefs[last.type].materialCost
  /\ G_CountBuildables < maxStructures
  /\ ~TraceStartSolid(LastOrigin, buildPieceDefs[last.type].mins,
                      buildPieceDefs[last.type].maxs)

\* the notification of Cmd_BuildMode_f when g_buildingEnabled is 0
DisabledNotice == "print: Building is disabled on this server"

\* C11 as stated: with the feature disabled, toggleMode leaves the actor's
\* session with active = false, changes no other session field and produces
\* only the disabled notification
C11_DisabledLeavesInactive ==
  [][(last'.op = "buildmode" /\ ~enabled) =>
       /\ buildState'[last'.client].active = FALSE
       /\ buildState' = [buildState EXCEPT ![last'.client].active = FALSE]
       /\ last'.signals = {DisabledNotice}]_vars

\* C11, amended: with the feature disabled, toggleMode leaves every session
\* field as it was (an inactive session stays inactive, a session activated
\* before the feature was disabled stays active), changes no balance and no
\* Structure, and produces only the disabled notification
C11_DisabledChangesNothing ==
  [][(last'.op = "buildmode" /\ ~enabled) =>
       /\ buildState' = buildState
       /\ (~buildState[last'.client].active => ~buildState'[last'.client].active)
       /\ materials' = materials
       /\ entities' = entities
       /\ last'.signals = {DisabledNotice}]_vars

\* C11 witness: toggleMode was refused with the feature disabled and the
\* session, activated and rotated before, is still active
C11_Witness ==
  /\ last.op = "buildmode"
  /\ ~enabled
  /\ last.signals = {DisabledNotice}
  /\ buildState[last.client].active
  /\ buildState[last.client].rotation = 90

\* C12 as stated: after a spawn/respawn event the actor's balance is the
\* configured starting amount in every configuration, and its session is reset
C12_SpawnResetsBalance ==
  last.op = "player_spawn" =>
    /\ materials[last.client] = startMaterials
    /\ ~buildState[last.client].active
    /\ buildState[last.client].rotation = 0
    /\ buildState[last.client].lastBuildTime = 0

\* C12, amended: a spawn/respawn event resets the actor's session in every
\* configuration; with the feature enabled it sets the balance to the
\* configured starting amount whatever it was, with the feature disabled it
\* leaves the balance as it was; no other actor's balance or session changes
C12_SpawnResets ==
  [][last'.op = "player_spawn" =>
       LET c == last'.client IN
       /\ buildState'[c] = ZeroBuildState
       /\ enabled => materials'[c] = startMaterials
       /\ ~enabled => materials'[c] = materials[c]
       /\ \A d \in Clients \ {c} :
            materials'[d] = materials[d] /\ buildState'[d] = buildState[d]]_vars

\* C12 witness: an actor who has paid for a Structure that still stands has
\* respawned with the feature enabled and holds the starting amount again
C12_Witness ==
  /\ last.op = "player_spawn"
  /\ enabled
  /\ startMaterials > 0
  /\ materials[last.client] = startMaterials
  /\ buildState[last.client] = ZeroBuildState
  /\ \E i \in LiveSlots : entities[i].buildableOwner = last.client

\* C13: every actor's BuildSession.rotation is one of 0, 90, 180, 270
C13_RotationInRange ==
  \A c \in Clients : buildState[c].rotation \in {0, 90, 180, 270}

\* C13 witness: a rotate of an active session has wrapped the rotation from
\* 270 back to 0
C13_Witness ==
  /\ last.op = "buildrotate"
  /\ buildState[last.client].active
  /\ buildState[last.client].rotation = 0

\* the state outside the build sessions
World == <<enabled, startMaterials, maxStructures, time, materials, entities>>

\* C14: for an active session rotate sets rotation to (rotation + 90) mod 360
\* and changes nothing else, and three more such steps from the new value lead
\* back to the value before; for an inactive session rotate changes no state
C14_Rotate ==
  [][last'.op = "buildrotate" =>
       LET c == last'.client
           r == buildState[c].rotation
           r1 == buildState'[c].rotation
       IN
       /\ World' = World
       /\ last'.signals = {}
       /\ IF buildState[c].active
            THEN /\ buildState' = [buildState EXCEPT ![c].rotation = (r + 90) % 360]
                 /\ r1 # r
                 /\ ((((((r1 + 90) % 360) + 90) % 360) + 90) % 360) = r
            ELSE buildState' = buildState]_vars

\* C14 witness: a rotate has brought an active session that selected a roof
\* and has placed a Structure back to rotation 0
C14_Witness ==
  /\ last.op = "buildrotate"
  /\ buildState[last.client].active
  /\ buildState[last.client].rotation = 0
  /\ buildState[last.client].selectedType = BUILD_ROOF
  /\ buildState[last.client].lastBuildTime = BUILD_COOLDOWN_MS

\* C15: with the feature enabled toggleMode flips the active flag; activation
\* sets selectedType to BUILD_WALL and rotation to 0 whatever they were and
\* keeps lastBuildTime, deactivation keeps selectedType, rotation and
\* lastBuildTime; toggleMode never changes a balance or a Structure
C15_Toggle ==
  [][last'.op = "buildmode" =>
       LET c == last'.client IN
       /\ materials' = materials
       /\ entities' = entities
       /\ enabled =>
            /\ buildState'[c].active = ~buildState[c].active
            /\ IF buildState'[c].active
                 THEN /\ buildState' = [buildState EXCEPT ![c].active = TRUE,
                                                          ![c].selectedType = BUILD_WALL,
                                                          ![c].rotation = 0]
                      /\ last'.signals = {"print: Build mode ON"}
                 ELSE /\ buildState' = [buildState EXCEPT ![c].active = FALSE]
                      /\ last'.signals = {"print: Build mode OFF"}]_vars

\* C15 witness: a session that placed a rotated roof has been activated again:
\* the selection is the wall, the rotation 0, lastBuildTime and the balance as
\* the placement left them
C15_Witness ==
  /\ last.op = "buildmode"
  /\ last.signals = {"print: Build mode ON"}
  /\ buildState[last.client] =
       [active |-> TRUE, selectedType |-> BUILD_WALL, rotation |-> 0,
        lastBuildTime |-> BUILD_COOLDOWN_MS]
  /\ materials[last.client] = startMaterials - 10
  /\ \E i \in LiveSlots :
       /\ entities[i].buildableOwner = last.client
       /\ entities[i].buildableType = BUILD_ROOF
       /\ entities[i].angles = <<0, 90, 0>>

\* C16: selectType sets the session's selectedType to the type, and changes
\* nothing else, when the session is active and the type is a real one
\* (BUILD_NONE < type < BUILD_NUM_TYPES); when the session is inactive, or the
\* type is NONE or out of range, it changes no state at all
C16_Select ==
  [][last'.op = "buildselect" =>
       LET c == last'.client
           type == last'.type
       IN
       /\ World' = World
       /\ IF buildState[c].active /\ type \in RealTypes
            THEN buildState' = [buildState EXCEPT ![c].selectedType = type]
            ELSE buildState' = buildState /\ last'.signals = {}]_vars

\* C16 witness: an active session that had selected the ramp asked for the
\* type BUILD_NUM_TYPES and keeps the ramp
C16_Witness ==
  /\ last.op = "buildselect"
  /\ last.type = BUILD_NUM_TYPES
  /\ buildState[last.client].active
  /\ buildState[last.client].selectedType = BUILD_RAMP
  /\ buildState[last.client].rotation = 90

\* the signals of a refused request: for lack of materials, and the generic ones
MaterialsSignals == {"print: Not enough materials", "EV_BUILD_FAIL"}
GenericSignals == {"EV_BUILD_FAIL", "print: Cannot place here"}

\* the step is a requestPlace of an active session after the cooldown that was
\* rejected
RejectedRequest ==
  /\ last'.op = "buildplace"
  /\ last'.spawned = NoEntity
  /\ buildState[last'.client].active
  /\ ~CooldownActive(last'.client)

\* the requesting session has the materials for the piece it selected
RequestAffordable ==
  materials[last'.client] >=
    G_GetBuildPieceDef(buildState[last'.client].selectedType).materialCost

\* the piece of the request is inside the world or overlaps a live Structure
RequestGeometryBad ==
  LET type == buildState[last'.client].selectedType
      def == G_GetBuildPieceDef(type)
      o == SnappedOrigin(type, last'.origin)
  IN TraceStartSolid(o, def.mins, def.maxs) \/ OverlapsBuildable(def, o)

C18_DamageStep ==
  last'.op = "damage" =>
    LET i == last'.spawned IN
    /\ IsBuildable(entities[i])
    /\ materials' = materials
    /\ buildState' = buildState
    /\ \E amount \in PlaceDamageAmounts :
         IF entities[i].health - amount <= 0
           THEN /\ last'.signals = {"EV_BUILD_DESTROY"}
                /\ last'.origin = entities[i].origin
                /\ entities' = [entities EXCEPT ![i] = FreeEntity]
                /\ ~IsBuildable(entities'[i])
                /\ G_CountBuildables' = G_CountBuildables - 1
           ELSE /\ last'.signals = {}
                /\ entities' = [entities EXCEPT ![i].health = @ - amount]
                /\ G_CountBuildables' = G_CountBuildables

\* C18, the life of a slot: a live Structure stops being live only by being
\* destroyed, and a slot that holds no live Structure gets one only from a
\* spawn, which sets up a new Structure with full health
C18_AliveThenDestroyed ==
  \A i \in Slots :
    /\ (IsBuildable(entities[i]) /\ ~IsBuildable(entities'[i])) =>
         /\ last'.op = "damage"
         /\ last'.spawned = i
         /\ "EV_BUILD_DESTROY" \in last'.signals
    /\ (~IsBuildable(entities[i]) /\ IsBuildable(entities'[i])) =>
         /\ last'.op = "buildplace"
         /\ last'.spawned = i
         /\ entities'[i].health = buildPieceDefs[last'.type].health
         /\ entities'[i].health > 0

\* C18: each Structure goes from Alive to Destroyed only, destruction emits
\* the effect at its position, frees it and lowers the live count by one, a
\* destroyed Structure never becomes live again, and destruction changes no
\* other Structure and no balance
C18_Destruction == [][C18_DamageStep /\ C18_AliveThenDestroyed]_vars

\* C18 witness: a roof was destroyed by damage equal to its health while
\* another Structure stands, and its builder's balance is what the two
\* placements left
C18_Witness ==
  /\ last.op = "damage"
  /\ last.signals = {"EV_BUILD_DESTROY"}
  /\ last.type = BUILD_ROOF
  /\ ~entities[last.spawned].inuse
  /\ G_CountBuildables = 1
  /\ materials[1] = startMaterials - 20

\* C19: G_CanPlaceBuildable and G_SpawnBuildable reject every type that is
\* NONE or out of range, and no live Structure has a type other than wall,
\* floor, ramp or roof
C19_OnlyRealTypes ==
  /\ (last.op = "canplace" /\ last.type \notin RealTypes) => last.signals = {"qfalse"}
  /\ (last.op = "spawn" /\ last.type \notin RealTypes) => last.spawned = NoEntity
  /\ \A i \in LiveSlots : entities[i].buildableType \in RealTypes

\* the part of C19 about the type NONE alone
C19_NoneRejected ==
  /\ (last.op = "canplace" /\ last.type = BUILD_NONE) => last.signals = {"qfalse"}
  /\ (last.op = "spawn" /\ last.type = BUILD_NONE) => last.spawned = NoEntity
  /\ \A i \in LiveSlots : entities[i].buildableType # BUILD_NONE

\* a live Structure of a type out of range
C19_LiveOutOfRange ==
  \E i \in LiveSlots : entities[i].buildableType = BUILD_NUM_TYPES

\* C20, the rounding: a snap gives, on each axis, the multiple r of the quantum
\* with r - g/2 <= x < r + g/2 for the coordinate x it was given
C20_RoundsToNearest ==
  [][last'.op = "snap" =>
       \A k \in 1..3 :
         /\ last'.origin[k] % BUILD_GRID_SIZE = 0
         /\ 2 * last'.origin[k] - BUILD_GRID_SIZE <= 2 * last.origin[k]
         /\ 2 * last.origin[k] < 2 * last'.origin[k] + BUILD_GRID_SIZE]_vars

\* C20, the fixed point: a position a snap has returned is returned unchanged
\* by another snap
C20_SnappedIsFixed ==
  last.op = "snap" => G_SnapToGrid(last.origin, BUILD_GRID_SIZE) = last.origin

\* C20: grid snap with quantum 64 is idempotent on every axis, for positive
\* and negative coordinates and for ties at half a quantum, where snap rounds
\* each axis to floor(x/g + 1/2) * g
C20_SnapIdempotent == []C20_SnappedIsFixed /\ C20_RoundsToNearest

\* C20 witness: a position with a negative x and ties at half a quantum on y
\* and z (only 32 snaps to 64 there) has been snapped
C20_Witness ==
  /\ last.op = "snap"
  /\ last.origin = <<-128, 64, 64>>

\* C21, state part: each axis of every live Structure's origin is an exact
\* multiple of its piece's grid quantum
C21_OnGrid ==
  \A i \in LiveSlots :
    /\ entities[i].buildableType \in RealTypes
    /\ \A k \in 1..3 :
         entities[i].origin[k] % buildPieceDefs[entities[i].buildableType].gridSnap = 0

\* C21, step part: a spawn that returns a Structure stored the requested
\* origin snapped to the piece's quantum, and no step moves a Structure that
\* is live before and after it
C21_StoredSnapped ==
  /\ (last'.op = "spawn" /\ last'.spawned # NoEntity) =>
       entities'[last'.spawned].origin =
         G_SnapToGrid(last'.origin, buildPieceDefs[last'.type].gridSnap)
  /\ \A i \in Slots :
       (IsBuildable(entities[i]) /\ IsBuildable(entities'[i])) =>
         entities'[i].origin = entities[i].origin

\* C21: every live Structure's origin is the requested origin snapped to the
\* piece's grid quantum, a multiple of the quantum on each axis, and it does
\* not change while the Structure is live
C21_GridSnapped == []C21_OnGrid /\ [][C21_StoredSnapped]_vars

\* C21 witness: a spawn requested at (20, -10, 5), off the grid, returned a
\* Structure that stands at (0, 0, 0) beside another live Structure
C21_Witness ==
  /\ last.op = "spawn"
  /\ last.spawned # NoEntity
  /\ last.origin = <<20, -10, 5>>
  /\ entities[last.spawned].origin = <<0, 0, 0>>
  /\ G_CountBuildables = 2

\* the warning G_SpawnBuildable logs when G_Spawn returns NULL
NoFreeEntitiesWarning == "G_Printf: no free entities"

\* the step is a requestPlace of an active session, after the cooldown, whose
\* piece passes G_CanPlaceBuildable at the snapped origin
ValidRequest ==
  LET c == last'.client
      bs == buildState[c]
  IN
  /\ last'.op = "buildplace"
  /\ bs.active
  /\ ~CooldownActive(c)
  /\ G_CanPlaceBuildable(bs.selectedType, SnappedOrigin(bs.selectedType, last'.origin),
                         <<0, bs.rotation, 0>>, c)

\* C22: a request that passes validation while no entity slot is free returns
\* null, logs the warning, adds no Structure, debits nothing, leaves
\* lastBuildTime alone and emits the generic failure signal; the warning is
\* logged in no other case
C22_NoFreeSlot ==
  [][/\ (ValidRequest /\ \A i \in Slots : entities[i].inuse) =>
          /\ last'.spawned = NoEntity
          /\ last'.signals = GenericSignals \cup {NoFreeEntitiesWarning}
          /\ entities' = entities
          /\ G_CountBuildables' = G_CountBuildables
          /\ materials' = materials
          /\ buildState' = buildState
     /\ NoFreeEntitiesWarning \in last'.signals =>
          (ValidRequest /\ \A i \in Slots : entities[i].inuse)]_vars

\* C22 witness: a request with the materials at hand, below the maximum, at a
\* free place was refused with the warning logged, every slot being in use
C22_Witness ==
  /\ LastPlaceRefusedBySpawn
  /\ NoFreeEntitiesWarning \in last.signals
  /\ \A i \in Slots : entities[i].inuse
  /\ enabled
  /\ G_CountBuildables < maxStructures
  /\ materials[last.client] >= buildPieceDefs[last.type].materialCost
  /\ ~OverlapsBuildable(buildPieceDefs[last.type], LastOrigin)
  /\ buildState[last.client].lastBuildTime < time

\* the step is a requestPlace of an active session made before lastBuildTime +
\* BUILD_COOLDOWN_MS
RequestInCooldown ==
  /\ last'.op = "buildplace"
  /\ buildState[last'.client].active
  /\ time < buildState[last'.client].lastBuildTime + BUILD_COOLDOWN_MS

\* C23 as stated: a request made during the cooldown is rejected without a
\* message, a failure signal is emitted, and no state changes
C23_CooldownSignaled ==
  [][RequestInCooldown =>
       /\ last'.spawned = NoEntity
       /\ "EV_BUILD_FAIL" \in last'.signals
       /\ \A m \in {"print: Not enough materials", "print: Cannot place here"} :
            m \notin last'.signals
       /\ World' = World
       /\ buildState' = buildState]_vars

\* C23, amended: a request of an active session made during the cooldown is
\* rejected without any message and without any signal, and changes no state;
\* a request of an active session made after the cooldown always emits a
\* message or a signal
C23_CooldownSilent ==
  [][/\ RequestInCooldown =>
          /\ last'.spawned = NoEntity
          /\ last'.signals = {}
          /\ World' = World
          /\ buildState' = buildState
     /\ (/\ last'.op = "buildplace"
         /\ buildState[last'.client].active
         /\ time >= buildState[last'.client].lastBuildTime + BUILD_COOLDOWN_MS) =>
          last'.signals # {}]_vars

\* C23 witness: 99 ms after a successful placement a request that lacks
\* nothing else (feature enabled, materials, room, a free place) was rejected
\* with no message and no signal
C23_Witness ==
  /\ last.op = "buildplace"
  /\ last.spawned = NoEntity
  /\ last.signals = {}
  /\ buildState[last.client].active
  /\ buildState[last.client].lastBuildTime > 0
  /\ time = buildState[last.client].lastBuildTime + BUILD_COOLDOWN_MS - 1
  /\ enabled
  /\ materials[last.client] >= buildPieceDefs[last.type].materialCost
  /\ G_CountBuildables < maxStructures
  /\ \E i \in Slots : ~entities[i].inuse
  /\ ~TraceStartSolid(LastOrigin, buildPieceDefs[last.type].mins,
                      buildPieceDefs[last.type].maxs)
  /\ ~OverlapsBuildable(buildPieceDefs[last.type], LastOrigin)

\* the commands of an actor and its spawn/respawn event
ActorOps == {"buildmode", "buildselect", "buildrotate", "buildplace", "player_spawn"}

\* C24: a command or a spawn/respawn event of actor A leaves every other
\* actor's BuildSession and balance unchanged, and leaves every Structure that
\* was live unchanged, A's own included
C24_OthersUntouched ==
  [][last'.op \in ActorOps =>
       /\ \A b \in Clients \ {last'.client} :
            /\ buildState'[b] = buildState[b]
            /\ materials'[b] = materials[b]
       /\ \A i \in LiveSlots : entities'[i] = entities[i]]_vars

\* C24 witness: an actor who owns a live Structure has respawned while the
\* other actor, in build mode, has placed a Structure and spent its materials
C24_Witness ==
  /\ last.op = "player_spawn"
  /\ \E i \in LiveSlots : entities[i].buildableOwner = last.client
  /\ \E b \in Clients \ {last.client} :
       /\ buildState[b].active
       /\ buildState[b].lastBuildTime = BUILD_COOLDOWN_MS
       /\ materials[b] = startMaterials - 10
       /\ \E j \in LiveSlots : entities[j].buildableOwner = b

\* the time of the request that placed a Structure, read off the row it
\* stands in (SpecCooldown)
PlacedAt(i) == (entities[i].origin[2] \div 128) * 50

\* C25: any two successful placements by the same actor are at least
\* BUILD_COOLDOWN_MS of simulation time apart, whatever spawn/respawn events
\* and toggles happened between them
C25_PlacementsApart ==
  \A i, j \in LiveSlots :
    (i # j /\ entities[i].buildableOwner = entities[j].buildableOwner) =>
      \/ PlacedAt(i) - PlacedAt(j) >= BUILD_COOLDOWN_MS
      \/ PlacedAt(j) - PlacedAt(i) >= BUILD_COOLDOWN_MS

\* what holds of the code: a successful placement is at least
\* BUILD_COOLDOWN_MS after the time the session holds as lastBuildTime, which
\* a spawn/respawn event sets back to 0
C25_ApartFromRecorded ==
  [][(last'.op = "buildplace" /\ last'.spawned # NoEntity) =>
       /\ time >= buildState[last'.client].lastBuildTime + BUILD_COOLDOWN_MS
       /\ buildState'[last'.client].lastBuildTime = time]_vars

\* C26: while g_buildingEnabled is 0 no operation adds a live Structure or
\* debits a ledger: canPlace answers false, spawn and requestPlace are
\* rejected, also for a session that was active before; the Structures that
\* were live stay live through the calls and through the switching of the flag
C26_DisabledGate ==
  [][/\ ~enabled =>
          /\ LiveSlots' \subseteq LiveSlots
          /\ \A c \in Clients : materials'[c] >= materials[c]
          /\ last'.op = "canplace" => last'.signals = {"qfalse"}
          /\ last'.op \in {"spawn", "buildplace"} => last'.spawned = NoEntity
          /\ last'.op \in {"canplace", "spawn", "buildplace", "set_enabled"} =>
                entities' = entities /\ materials' = materials
     /\ last'.op = "set_enabled" => entities' = entities /\ materials' = materials
    ]_vars

\* the feature is off, a Structure placed earlier is still live, and the
\* session that placed it, active since before, has just asked for another
\* piece it can pay at a free place after its cooldown, and was refused
C26_Witness ==
  /\ ~enabled
  /\ last.op = "buildplace"
  /\ last.spawned = NoEntity
  /\ last.signals = GenericSignals
  /\ buildState[1].active
  /\ materials[1] >= G_GetBuildPieceDef(buildState[1].selectedType).materialCost
  /\ \E i \in LiveSlots :
       /\ entities[i].buildableOwner = 1
       /\ entities[i].origin # last.origin

\* every active session has one of the four real piece types selected
C27_ActiveHasRealType ==
  \A c \in Clients : buildState[c].active => buildState[c].selectedType \in RealTypes

\* a Structure created by requestPlace has the type the session had selected
\* and the angles <<0, rotation of the session, 0>> at the time of the request
C27_PlacedAsSelected ==
  [][(last'.op = "buildplace" /\ last'.spawned # NoEntity) =>
       LET bs == buildState[last'.client]
           e == entities'[last'.spawned]
       IN /\ bs.active
          /\ bs.selectedType \in RealTypes
          /\ IsBuildable(e)
          /\ e.buildableType = bs.selectedType
          /\ e.angles = <<0, bs.rotation, 0>>]_vars

\* C27: in every reachable state an active BuildSession has a real
\* selectedType, and every Structure created through requestPlace has the
\* session's selected real type, yaw equal to the session's rotation at the
\* time of the request, pitch and roll 0
C27_SessionShapesStructure == []C27_ActiveHasRealType /\ C27_PlacedAsSelected

\* a roof has just been placed by a session turned by a quarter
C27_Witness ==
  /\ last.op = "buildplace"
  /\ last.spawned # NoEntity
  /\ entities[last.spawned].buildableType = BUILD_ROOF
  /\ entities[last.spawned].angles = <<0, 90, 0>>
  /\ buildState[last.client].rotation = 90

\* C28: whenever the server has run every command the cgame has sent, the
\* cgame's cg_buildState.active equals the server's buildState.active of that
\* client, and when both are active their selectedType and rotation are equal
C28_MirrorConsistent ==
  clientCommands = <<>> =>
    /\ cg_buildState.active = buildState[CgClient].active
    /\ (cg_buildState.active /\ buildState[CgClient].active) =>
         /\ cg_buildState.selectedType = buildState[CgClient].selectedType
         /\ cg_buildState.rotation = buildState[CgClient].rotation

====
